---------------------------- MODULE Spec2Model ----------------------------
(***************************************************************************)
(* Model of exceptiongroup/_formatting.py: the recursive generator         *)
(* traceback_exception_format, its _ExceptionPrintContext and the module   *)
(* tunables max_group_width / max_group_depth.                             *)
(*                                                                         *)
(* A captured exception tree is a table of TracebackException objects      *)
(* indexed by identity.  The generator recursion is an explicit stack of   *)
(* activation records; every action is a step of the innermost generator.  *)
(* A line of output is a record: `pre` is the prefix textwrap.indent put   *)
(* in front of it, `body` the text; `kind`, `node`, `frame` and `depth`    *)
(* record which statement produced the line, for which exc, in which       *)
(* activation and at which exception_group_depth.                          *)
(***************************************************************************)
EXTENDS Integers, Sequences, FiniteSets, TLC

VARIABLES
    nodes,            \* identity -> TracebackException (the captured tree)
    root,             \* the object format() is called on
    max_group_width,  \* module global, line 15
    max_group_depth,  \* module global, line 16
    exception_group_depth,  \* _ctx.exception_group_depth
    need_close,       \* _ctx.need_close
    seen,             \* _ctx.seen
    stack,            \* activations of traceback_exception_format, innermost last
    out,              \* lines yielded by the running (or last) top-level call
    results,          \* one record per completed top-level call
    error,            \* "none" or the exception that ended the call
    excepthook,       \* sys.excepthook
    imported          \* the module body (lines 206-212) has run

vars == <<nodes, root, max_group_width, max_group_depth, exception_group_depth,
          need_close, seen, stack, out, results, error, excepthook, imported>>

ctxvars == <<exception_group_depth, need_close, seen>>
hookvars == <<excepthook, imported>>
inputvars == <<nodes, root, max_group_width, max_group_depth>>

-----------------------------------------------------------------------------
(* Bounds of the model *)

MaxNodes == 3     \* objects in an exhaustively enumerated tree
MaxWide == 20     \* children of the widest flat group
MaxTower == 12    \* levels of the deepest tower of nested groups
MaxRuns == 2      \* top-level calls of format() on the same tree
MaxWalk == 6      \* pairs the list `output` holds before memory runs out

(* Program constants *)

DefaultMaxGroupWidth == 15
DefaultMaxGroupDepth == 10

None == 0

_cause_message ==
    << "",
       "The above exception was the direct cause of the following exception:",
       "" >>

_context_message ==
    << "",
       "During handling of the above exception, another exception occurred:",
       "" >>

-----------------------------------------------------------------------------
(* Generic helpers *)

RECURSIVE Spaces(_)
Spaces(n) == IF n <= 0 THEN "" ELSE " " \o Spaces(n - 1)

Min(S) == CHOOSE x \in S : \A y \in S : x <= y

RECURSIVE SortedSeq(_)
SortedSeq(S) == IF S = {} THEN << >>
                ELSE << Min(S) >> \o SortedSeq(S \ {Min(S)})

RECURSIVE Flatten(_)
Flatten(ss) == IF ss = << >> THEN << >> ELSE Head(ss) \o Flatten(Tail(ss))

-----------------------------------------------------------------------------
(* The captured tree: what traceback_exception_init leaves in each object. *)
(* cause / context are identities (None when absent), exceptions is the    *)
(* list of embedded objects and has_exceptions tells a list from None,     *)
(* stack is the number of FrameSummary entries of the StackSummary.        *)

Node(cause, context, suppress, isgroup, excs, frames) ==
    [ __cause__ |-> cause, __context__ |-> context,
      __suppress_context__ |-> suppress,
      has_exceptions |-> isgroup, exceptions |-> excs, stack |-> frames ]

Links == {"cause", "context", "child"}

\* Every way to hang objects 2..n below an earlier object, each owned by
\* exactly one link of its owner.
Shapes(n) ==
    { sh \in [2..n -> [parent : 1..n, link : Links]] :
        /\ \A j \in 2..n : sh[j].parent < j
        /\ \A j, k \in 2..n :
              (j # k /\ sh[j].parent = sh[k].parent /\ sh[j].link = sh[k].link)
                  => sh[j].link = "child" }

Linked(sh, n, p, kind) == { j \in 2..n : sh[j].parent = p /\ sh[j].link = kind }

LinkTarget(sh, n, p, kind) ==
    IF Linked(sh, n, p, kind) = {} THEN None ELSE Min(Linked(sh, n, p, kind))

\* sup: objects with __suppress_context__ set; eg: a childless object that is
\* a group without members (None: there is none; the last object never has
\* members); ns: an object whose stack is empty (0: there is none).
ShapedTree(sh, n, sup, eg, ns) ==
    [ j \in 1..n |->
        Node(LinkTarget(sh, n, j, "cause"),
             LinkTarget(sh, n, j, "context"),
             j \in sup,
             Linked(sh, n, j, "child") # {} \/ j = eg,
             SortedSeq(Linked(sh, n, j, "child")),
             IF j = ns THEN 0 ELSE 1) ]

\* A flat group of k leaves.
WideTree(k) ==
    [ j \in 1..(k + 1) |->
        IF j = 1
        THEN Node(None, None, FALSE, TRUE, [c \in 1..k |-> c + 1], 1)
        ELSE Node(None, None, FALSE, FALSE, << >>, 0) ]

\* levels nested groups, each the only child of the one above; the deepest
\* has c leaf children.
TowerTree(levels, c) ==
    [ j \in 1..(levels + c) |->
        IF j < levels THEN Node(None, None, FALSE, TRUE, << j + 1 >>, 0)
        ELSE IF j = levels
             THEN Node(None, None, FALSE, TRUE, [x \in 1..c |-> levels + x], 0)
             ELSE Node(None, None, FALSE, FALSE, << >>, 0) ]

\* Values of the two tunables the small trees are rendered under.
Tunables ==
    { << DefaultMaxGroupWidth, DefaultMaxGroupDepth >>,
      << 1, 1 >>,
      << 0, DefaultMaxGroupDepth >>,
      << -1, DefaultMaxGroupDepth >>,
      << DefaultMaxGroupWidth, 0 >> }

InitShaped ==
    \E n \in 1..MaxNodes : \E sh \in Shapes(n) :
    \E sup \in SUBSET { p \in 1..n : Linked(sh, n, p, "context") # {} } :
    \E eg \in {None, n} :
    \E ns \in 0..(IF n < 2 THEN n ELSE 2) :
    \E t \in Tunables :
        /\ nodes = ShapedTree(sh, n, sup, eg, ns)
        /\ max_group_width = t[1]
        /\ max_group_depth = t[2]

InitWide ==
    \E k \in 0..MaxWide :
        /\ nodes = WideTree(k)
        /\ max_group_width = DefaultMaxGroupWidth
        /\ max_group_depth = DefaultMaxGroupDepth

InitTower ==
    \E levels \in 1..MaxTower : \E c \in 0..2 :
        /\ nodes = TowerTree(levels, c)
        /\ max_group_width = DefaultMaxGroupWidth
        /\ max_group_depth = DefaultMaxGroupDepth

\* A top-level group whose only child is a leaf that was raised from (or
\* while handling) a group with one leaf of its own.
ChainedChildTree(link) ==
    [ j \in 1..4 |->
        IF j = 1 THEN Node(None, None, FALSE, TRUE, << 2 >>, 0)
        ELSE IF j = 2
             THEN Node(IF link = "cause" THEN 3 ELSE None,
                       IF link = "context" THEN 3 ELSE None,
                       FALSE, FALSE, << >>, 0)
        ELSE IF j = 3 THEN Node(None, None, FALSE, TRUE, << 4 >>, 0)
        ELSE Node(None, None, FALSE, FALSE, << >>, 0) ]

InitChainedChild ==
    \E link \in {"cause", "context"} :
        /\ nodes = ChainedChildTree(link)
        /\ max_group_width = DefaultMaxGroupWidth
        /\ max_group_depth = DefaultMaxGroupDepth

\* The chained object of e in tree t (None when the walk ends at e).
ChainedIn(t, e) ==
    IF t[e].__cause__ # None THEN t[e].__cause__
    ELSE IF t[e].__context__ # None /\ ~t[e].__suppress_context__
         THEN t[e].__context__
         ELSE None

\* Hand-built objects whose links form a cycle: a tree of the exhaustive
\* family in which the object a that ends a chain gets as __cause__ itself
\* or the object b it was chained from.
CyclicInputs ==
    \E n \in 1..MaxNodes : \E sh \in Shapes(n) :
    \E sup \in SUBSET { p \in 1..n : Linked(sh, n, p, "context") # {} } :
    \E eg \in {None, n} :
    \E t \in Tunables :
    \E a, b \in 1..n :
        LET base == ShapedTree(sh, n, sup, eg, 0) IN
        /\ ChainedIn(base, a) = None
        /\ b = a \/ ChainedIn(base, b) = a
        /\ nodes = [base EXCEPT ![a].__cause__ = b]
        /\ max_group_width = t[1]
        /\ max_group_depth = t[2]

\* Nothing has been imported or rendered yet.
Fresh ==
    /\ imported = FALSE
    /\ root = 1
    /\ exception_group_depth = 0
    /\ need_close = FALSE
    /\ seen = {}
    /\ stack = << >>
    /\ out = << >>
    /\ results = << >>
    /\ error = "none"

\* sys.excepthook before the import: the interpreter's own, or one the user
\* has put there.  The families of large trees are rendered in both kinds
\* of process.
Init ==
    /\ \/ (InitShaped \/ InitChainedChild) /\ excepthook = "sys.__excepthook__"
       \/ (InitWide \/ InitTower)
            /\ excepthook \in {"sys.__excepthook__", "user_hook"}
    /\ Fresh

-----------------------------------------------------------------------------
(* Preformatted texts supplied by the traceback module.  A text is a       *)
(* sequence of lines; a generator of texts is a sequence of texts.         *)

\* exc.stack.format(): one two-line text per FrameSummary
StackFormat(e) ==
    [ f \in 1..nodes[e].stack |->
        << "  File exc" \o ToString(e) \o ".py, line " \o ToString(f) \o ", in f",
           "    raise" >> ]

\* exc.format_exception_only()
FormatExceptionOnly(e) ==
    IF nodes[e].has_exceptions
    THEN << << "ExceptionGroup: group " \o ToString(e) \o " ("
               \o ToString(Len(nodes[e].exceptions)) \o " sub-exceptions)" >> >>
    ELSE << << "Error" \o ToString(e) \o ": message " \o ToString(e) >> >>

-----------------------------------------------------------------------------
(* _ExceptionPrintContext *)

\* indent(), lines 90-91
indent(depth) == Spaces(2 * depth)

\* Fault variant: textwrap.indent's own default, which skips blank lines.
NonBlankLine(line) == line # ""

\* the predicate emit passes to textwrap.indent: lambda line: True
EveryLine(line) == TRUE

\* textwrap.indent(text, prefix, predicate): the prefix goes in front of the
\* lines the predicate accepts
textwrap_indent(text, prefix, tag) ==
    [ k \in 1..Len(text) |->
        [ pre |-> IF EveryLine(text[k]) THEN prefix ELSE "",
          body |-> text[k],
          kind |-> tag.kind, node |-> tag.node,
          frame |-> tag.frame, depth |-> tag.depth ] ]

\* Fault variant: the margin is added at depth 0 too.
AlwaysMargin(depth, margin_char) == indent(depth) \o margin_char \o " "

\* the prefix emit computes, lines 94-98 (margin_char None stands for "|")
indent_str(depth, margin_char) ==
    IF depth # 0 THEN indent(depth) \o margin_char \o " " ELSE indent(depth)

\* emit(text_gen, margin_char) for a generator of texts, lines 93-104
emit(text_gen, margin_char, depth, tag) ==
    Flatten([ t \in 1..Len(text_gen) |->
                textwrap_indent(text_gen[t], indent_str(depth, margin_char), tag) ])

\* a line the generator yields itself, built from indent()
RawLine(depth, text, tag) ==
    << [ pre |-> indent(depth), body |-> text,
         kind |-> tag.kind, node |-> tag.node,
         frame |-> tag.frame, depth |-> tag.depth ] >>

Tag(kind, e, depth) ==
    [ kind |-> kind, node |-> e, frame |-> Len(stack), depth |-> depth ]

-----------------------------------------------------------------------------
(* traceback_exception_format: the chain walk, lines 116-133 *)

\* Fault variant: __suppress_context__ is not consulted.
ChainedExcIgnoringSuppress(e) ==
    IF nodes[e].__cause__ # None
    THEN [ msg |-> "cause", exc |-> nodes[e].__cause__ ]
    ELSE IF nodes[e].__context__ # None
         THEN [ msg |-> "context", exc |-> nodes[e].__context__ ]
         ELSE [ msg |-> "none", exc |-> None ]

\* Fault variant: the two tests are swapped, so __context__ wins.
ChainedExcContextFirst(e) ==
    IF nodes[e].__context__ # None /\ ~nodes[e].__suppress_context__
    THEN [ msg |-> "context", exc |-> nodes[e].__context__ ]
    ELSE IF nodes[e].__cause__ # None
         THEN [ msg |-> "cause", exc |-> nodes[e].__cause__ ]
         ELSE [ msg |-> "none", exc |-> None ]

\* lines 120-128: the link the walk follows from exc
ChainedExc(e) ==
    IF nodes[e].__cause__ # None
    THEN [ msg |-> "cause", exc |-> nodes[e].__cause__ ]
    ELSE IF nodes[e].__context__ # None /\ ~nodes[e].__suppress_context__
         THEN [ msg |-> "context", exc |-> nodes[e].__context__ ]
         ELSE [ msg |-> "none", exc |-> None ]

MessageText(msg) ==
    IF msg = "cause" THEN _cause_message ELSE _context_message

\* Fault variant: the pairs are rendered in the order they were found.
NotReversed(s) == s

\* reversed(output), line 135
RECURSIVE Reversed(_)
Reversed(s) == IF s = << >> THEN << >>
               ELSE Append(Reversed(Tail(s)), Head(s))

-----------------------------------------------------------------------------
(* Activations *)

Top == stack[Len(stack)]

Running == stack # << >> /\ error = "none"

SetTop(f) == stack' = [stack EXCEPT ![Len(stack)] = f]

\* The locals of one call of format(); `entered` records the value of
\* _ctx.exception_group_depth the call found.
Activation(e, chain) ==
    [ self |-> e, chain |-> chain, pc |-> "walk", exc |-> e,
      output |-> << >>, it |-> << >>, msg |-> "none",
      is_toplevel |-> FALSE, num_excs |-> 0, n |-> 0, i |-> 0,
      last_exc |-> FALSE, truncated |-> FALSE,
      entered |-> exception_group_depth ]

-----------------------------------------------------------------------------
(* Actions *)

\* Fault variant: the hook is installed whatever sys.excepthook is.
AlwaysInstalled(current) == "exceptiongroup_excepthook"

\* lines 211-212: sys.excepthook after the module body has run
InstalledHook(current) ==
    IF current = "sys.__excepthook__" THEN "exceptiongroup_excepthook"
    ELSE current

\* The module body runs, lines 206-212: on import, and again on a reload.
Install ==
    /\ stack = << >>
    /\ error = "none"
    /\ excepthook' = InstalledHook(excepthook)
    /\ imported' = TRUE
    /\ UNCHANGED <<inputvars, ctxvars, stack, out, results, error>>

\* A top-level call format(chain=...) on the root: lines 113-117.  _ctx is
\* None, so a new _ExceptionPrintContext is built (lines 85-88).  A repeated
\* call renders the same tree with the same flag.
Format(chain) ==
    /\ imported
    /\ stack = << >>
    /\ error = "none"
    /\ Len(results) < MaxRuns
    /\ results # << >> => chain = results[1].chain
    /\ exception_group_depth' = 0
    /\ need_close' = FALSE
    /\ seen' = {}
    /\ stack' = << Activation(root, chain) >>
    /\ out' = << >>
    /\ UNCHANGED <<inputvars, hookvars, results, error>>

\* One iteration of `while exc`, lines 119-131.  Nothing in the loop looks at
\* _ctx.seen; the list grows until line 130 cannot extend it.
ChainWalk ==
    /\ Running
    /\ Top.pc = "walk" /\ Top.chain /\ Top.exc # None
    /\ IF Len(Top.output) < MaxWalk
       THEN /\ LET link == ChainedExc(Top.exc) IN
                 SetTop([Top EXCEPT
                           !.output = Append(@, [msg |-> link.msg,
                                                 exc |-> Top.exc]),
                           !.exc = link.exc])
            /\ UNCHANGED error
       ELSE /\ error' = "MemoryError"
            /\ UNCHANGED stack
    /\ UNCHANGED <<inputvars, hookvars, ctxvars, out, results>>

\* `while exc` falls through and the for loop of line 135 begins
ChainEnd ==
    /\ Running
    /\ Top.pc = "walk" /\ Top.chain /\ Top.exc = None
    /\ SetTop([Top EXCEPT !.it = Reversed(Top.output), !.pc = "loop"])
    /\ UNCHANGED <<inputvars, hookvars, ctxvars, out, results, error>>

\* chain is false: line 133, then the for loop begins
NoChain ==
    /\ Running
    /\ Top.pc = "walk" /\ ~Top.chain
    /\ LET output == << [msg |-> "none", exc |-> Top.exc] >> IN
         SetTop([Top EXCEPT !.output = output, !.it = Reversed(output),
                            !.pc = "loop"])
    /\ UNCHANGED <<inputvars, hookvars, ctxvars, out, results, error>>

\* `for msg, exc in reversed(output)` takes the next pair, line 135
ForNext ==
    /\ Running
    /\ Top.pc = "loop" /\ Top.it # << >>
    /\ SetTop([Top EXCEPT !.msg = Head(Top.it).msg, !.exc = Head(Top.it).exc,
                          !.it = Tail(Top.it),
                          !.pc = IF Head(Top.it).msg # "none" THEN "msg"
                                 ELSE "body"])
    /\ UNCHANGED <<inputvars, hookvars, ctxvars, out, results, error>>

\* lines 136-137
EmitMsg ==
    /\ Running
    /\ Top.pc = "msg"
    /\ out' = out \o emit(<< MessageText(Top.msg) >>, "|", exception_group_depth,
                          Tag("msg", Top.exc, exception_group_depth))
    /\ SetTop([Top EXCEPT !.pc = "body"])
    /\ UNCHANGED <<inputvars, hookvars, ctxvars, results, error>>

\* exc.exceptions is None: lines 138-142
RenderLeaf ==
    /\ Running
    /\ Top.pc = "body" /\ ~nodes[Top.exc].has_exceptions
    /\ LET d == exception_group_depth
           e == Top.exc
       IN out' = out
            \o (IF nodes[e].stack # 0
                THEN emit(<< << "Traceback (most recent call last):" >> >>, "|", d,
                          Tag("tb_header", e, d))
                     \o emit(StackFormat(e), "|", d, Tag("stack", e, d))
                ELSE << >>)
            \o emit(FormatExceptionOnly(e), "|", d, Tag("exc_only", e, d))
    /\ SetTop([Top EXCEPT !.pc = "loop"])
    /\ UNCHANGED <<inputvars, hookvars, ctxvars, results, error>>

\* Fault variant: the limit is reached one level early.
ReachesDepth(depth) == depth >= max_group_depth

\* Fault variant: the limit is applied one level too deep.
ExceedsDepthLate(depth) == depth > max_group_depth + 1

\* line 143
ExceedsDepth(depth) == depth > max_group_depth

\* an exception group beyond the depth limit: lines 143-145
DepthTruncated ==
    /\ Running
    /\ Top.pc = "body" /\ nodes[Top.exc].has_exceptions
    /\ ExceedsDepth(exception_group_depth)
    /\ out' = out \o emit(<< << "... (max_group_depth is "
                               \o ToString(max_group_depth) \o ")" >> >>,
                          "|", exception_group_depth,
                          Tag("depth_trunc", Top.exc, exception_group_depth))
    /\ SetTop([Top EXCEPT !.pc = "loop"])
    /\ UNCHANGED <<inputvars, hookvars, ctxvars, results, error>>

\* the number of slots, lines 160-164
SlotCount(num_excs) ==
    IF num_excs <= max_group_width THEN num_excs ELSE max_group_width + 1

\* Fault variant: a top-level group does not step in.
EnteredDepthSame(is_toplevel, depth) == depth

\* the depth the group's own text is emitted at, lines 148-150
EnteredDepth(is_toplevel, depth) == IF is_toplevel THEN depth + 1 ELSE depth

\* the margin of the group header, line 155
HeaderMargin(is_toplevel) == IF is_toplevel THEN "+" ELSE "|"

\* an exception group within the depth limit: lines 146-165
GroupBegin ==
    /\ Running
    /\ Top.pc = "body" /\ nodes[Top.exc].has_exceptions
    /\ ~ExceedsDepth(exception_group_depth)
    /\ LET e == Top.exc
           is_toplevel == exception_group_depth = 0
           d == EnteredDepth(is_toplevel, exception_group_depth)
           num_excs == Len(nodes[e].exceptions)
       IN /\ exception_group_depth' = d
          /\ out' = out
               \o (IF nodes[e].stack # 0
                   THEN emit(<< << "Exception Group Traceback (most recent call last):" >> >>,
                             HeaderMargin(is_toplevel), d, Tag("eg_header", e, d))
                        \o emit(StackFormat(e), "|", d, Tag("stack", e, d))
                   ELSE << >>)
               \o emit(FormatExceptionOnly(e), "|", d, Tag("exc_only", e, d))
          /\ need_close' = FALSE
          /\ SetTop([Top EXCEPT !.is_toplevel = is_toplevel,
                                !.num_excs = num_excs,
                                !.n = SlotCount(num_excs),
                                !.i = 0, !.pc = "slots"])
    /\ UNCHANGED <<inputvars, hookvars, seen, results, error>>

\* Fault variant: the slot after the last permitted one is not truncated.
TruncatedLate(i) == i > max_group_width

\* lines 172-175
Truncated(i) == i >= max_group_width

\* line 176
Title(i, truncated) == IF ~truncated THEN ToString(i + 1) ELSE "..."

\* Fault variant: every slot header starts a frame.
SlotHeaderFirst(i, title) ==
    "+-+---------------- " \o title \o " ----------------"

\* lines 178-180, after indent()
SlotHeaderText(i, title) ==
    (IF i = 0 THEN "+-" ELSE "  ")
        \o "+---------------- " \o title \o " ----------------"

\* Fault variant: the first slot is taken for the last one.
IsFirst(i, n) == i = 0

\* line 167
IsLast(i, n) == i = n - 1

\* the head of one iteration of `for i in range(n)`: lines 166-182
SlotBegin ==
    /\ Running
    /\ Top.pc = "slots" /\ Top.i < Top.n
    /\ LET i == Top.i
           last_exc == IsLast(i, Top.n)
           truncated == Truncated(i)
       IN /\ need_close' = IF last_exc THEN TRUE ELSE need_close
          /\ out' = out \o RawLine(exception_group_depth,
                                   SlotHeaderText(i, Title(i, truncated)),
                                   Tag("slot", Top.exc, exception_group_depth))
          /\ exception_group_depth' = exception_group_depth + 1
          /\ SetTop([Top EXCEPT !.last_exc = last_exc, !.truncated = truncated,
                                !.pc = IF truncated THEN "summary" ELSE "child"])
    /\ UNCHANGED <<inputvars, hookvars, seen, results, error>>

\* Fault variant: the flag is not handed on and the child takes the default.
DefaultChain(chain) == TRUE

\* the flag handed to the child, line 184
ChildChain(chain) == chain

\* line 184: exc.exceptions[i].format(chain=chain, _ctx=_ctx) is entered
CallChild ==
    /\ Running
    /\ Top.pc = "child"
    /\ stack' = Append([stack EXCEPT ![Len(stack)].pc = "slot_end"],
                       Activation(nodes[Top.exc].exceptions[Top.i + 1],
                                  ChildChain(Top.chain)))
    /\ UNCHANGED <<inputvars, hookvars, ctxvars, out, results, error>>

\* lines 186-187
Remaining(num_excs) == num_excs - max_group_width

Plural(remaining) == IF remaining > 1 THEN "s" ELSE ""

\* the truncation summary, lines 185-188
WidthSummary ==
    /\ Running
    /\ Top.pc = "summary"
    /\ LET remaining == Remaining(Top.num_excs) IN
         out' = out \o emit(<< << "and " \o ToString(remaining)
                                 \o " more exception" \o Plural(remaining) >> >>,
                            "|", exception_group_depth,
                            Tag("width_trunc", Top.exc, exception_group_depth))
    /\ SetTop([Top EXCEPT !.pc = "slot_end"])
    /\ UNCHANGED <<inputvars, hookvars, ctxvars, results, error>>

\* Fault variant: the last slot closes the frame whatever the flag says.
ClosesLastSlot(last_exc, flag) == last_exc

\* line 190
OwesClose(last_exc, flag) == last_exc /\ flag

\* Fault variant: the slot is left without stepping back.
SlotNotLeft(depth) == depth

\* line 193
LeaveSlot(depth) == depth - 1

\* the tail of one iteration: lines 190-193
SlotEnd ==
    /\ Running
    /\ Top.pc = "slot_end"
    /\ IF OwesClose(Top.last_exc, need_close)
       THEN /\ out' = out \o RawLine(exception_group_depth,
                                     "+------------------------------------",
                                     Tag("close", Top.exc, exception_group_depth))
            /\ need_close' = FALSE
       ELSE UNCHANGED <<out, need_close>>
    /\ exception_group_depth' = LeaveSlot(exception_group_depth)
    /\ SetTop([Top EXCEPT !.i = Top.i + 1, !.pc = "slots"])
    /\ UNCHANGED <<inputvars, hookvars, seen, results, error>>

\* Fault variant: the depth is not reset.
DepthKept(depth) == depth

\* the depth a top-level group leaves behind: line 197 assigns 0
DepthAfterGroup(depth) == 0

\* after the last slot: lines 195-197
GroupEnd ==
    /\ Running
    /\ Top.pc = "slots" /\ ~(Top.i < Top.n)
    /\ IF Top.is_toplevel
       THEN IF exception_group_depth = 1
            THEN /\ exception_group_depth' = DepthAfterGroup(exception_group_depth)
                 /\ SetTop([Top EXCEPT !.pc = "loop"])
                 /\ UNCHANGED error
            ELSE /\ error' = "AssertionError"
                 /\ UNCHANGED <<exception_group_depth, stack>>
       ELSE /\ SetTop([Top EXCEPT !.pc = "loop"])
            /\ UNCHANGED <<exception_group_depth, error>>
    /\ UNCHANGED <<inputvars, hookvars, need_close, seen, out, results>>

\* the for loop of line 135 is exhausted: the generator returns.  The caller
\* resumes after its `yield from`; the top-level call is complete.
Return ==
    /\ Running
    /\ Top.pc = "loop" /\ Top.it = << >>
    /\ stack' = SubSeq(stack, 1, Len(stack) - 1)
    /\ results' = IF Len(stack) = 1
                  THEN Append(results,
                              [ chain |-> Top.chain, lines |-> out,
                                depth |-> exception_group_depth,
                                need_close |-> need_close, tree |-> nodes ])
                  ELSE results
    /\ UNCHANGED <<inputvars, hookvars, ctxvars, out, error>>

Next ==
    \/ Install
    \/ \E chain \in BOOLEAN : Format(chain)
    \/ ChainWalk
    \/ ChainEnd
    \/ NoChain
    \/ ForNext
    \/ EmitMsg
    \/ RenderLeaf
    \/ DepthTruncated
    \/ GroupBegin
    \/ SlotBegin
    \/ CallChild
    \/ WidthSummary
    \/ SlotEnd
    \/ GroupEnd
    \/ Return

Spec == Init /\ [][Next]_vars

\* The same program given objects with a cyclic chain.
InitCyclic == CyclicInputs /\ excepthook = "sys.__excepthook__" /\ Fresh

SpecCyclic == InitCyclic /\ [][Next]_vars

\* The consumer of the generator (line 203 joins every line) keeps asking
\* for the next line until the generator is exhausted or raises.
FairSpec == Spec /\ WF_vars(Next)

-----------------------------------------------------------------------------
(* Properties *)

\* the top-level call has run to its end
Completed == stack = << >> /\ results # << >> /\ error = "none"

\* the chain flag of the running (or last) top-level call
CallChain == IF stack # << >> THEN stack[1].chain
             ELSE results # << >> /\ results[Len(results)].chain

Bodies(L) == [ k \in 1..Len(L) |-> L[k].body ]

\* positions of the lines the outermost activation produced itself
TopIdx(L) == { k \in 1..Len(L) : L[k].frame = 1 }

Max(S) == CHOOSE x \in S : \A y \in S : x >= y

\* the outermost activation's line before position k
PrevTop(L, k) == Max({ j \in TopIdx(L) : j < k })

\* nothing can be followed from e: e ends a chain
ChainedExcEnd(e) ==
    /\ nodes[e].__cause__ = None
    /\ nodes[e].__context__ = None \/ nodes[e].__suppress_context__

HasLink(e) == nodes[e].__cause__ # None \/ nodes[e].__context__ # None

\* the separator text that belongs to the link from b to its predecessor a
LinkMessage(b, a) ==
    IF nodes[b].__cause__ = a THEN _cause_message
    ELSE IF nodes[b].__cause__ = None /\ nodes[b].__context__ = a
              /\ ~nodes[b].__suppress_context__
         THEN _context_message
         ELSE << >>

(* C1: a completed render with chain=true prints the blocks of the chain    *)
(* oldest ancestor first and the node itself last; nothing precedes the     *)
(* first block, and the block of b that follows the block of a is           *)
(* immediately preceded by exactly one separator, the one of the link       *)
(* followed from b to a (cause text for __cause__, context text for an      *)
(* unsuppressed __context__ without __cause__).                             *)
C1_ChainOrder ==
    (Completed /\ CallChain) =>
      LET L == out
          T == TopIdx(L)
      IN /\ L # << >>
         /\ L[1].frame = 1 /\ L[1].kind # "msg"
         \* the first block is the end of the chain
         /\ ChainedExcEnd(L[1].node)
         \* the last block is the node itself
         /\ L[Max(T)].node = root /\ L[Max(T)].kind # "msg"
         /\ \A k \in T \ {1} :
              LET j == PrevTop(L, k)
                  a == L[j].node
                  b == L[k].node
              IN IF L[k].kind = "msg" /\ L[j].kind # "msg"
                 \* a separator starts: it is the one of the link b -> a, and
                 \* the block of b starts right after its three lines
                 THEN /\ a # b
                      /\ k + 3 <= Len(L)
                      /\ << L[k].body, L[k + 1].body, L[k + 2].body >>
                            = LinkMessage(b, a)
                      /\ \A m \in {k + 1, k + 2} :
                            L[m].kind = "msg" /\ L[m].node = b /\ L[m].frame = 1
                      /\ L[k + 3].kind # "msg" /\ L[k + 3].node = b
                      /\ L[k + 3].frame = 1
                 \* otherwise the line continues the separator or the block
                 ELSE a = b

\* the text of the block of a leaf
LeafBlock(e) ==
    (IF nodes[e].stack # 0
     THEN << "Traceback (most recent call last):" >> \o Flatten(StackFormat(e))
     ELSE << >>)
    \o Flatten(FormatExceptionOnly(e))

\* B caused by A, two leaves: A's block, the cause separator, B's block
C1_Witness ==
    /\ Completed /\ CallChain
    /\ nodes[root].__cause__ = 2
    /\ ~HasLink(2) /\ ~nodes[2].has_exceptions /\ ~nodes[root].has_exceptions
    /\ Bodies(out) = LeafBlock(2) \o _cause_message \o LeafBlock(root)

(* C2: a node with only __context__ set and __suppress_context__ true is    *)
(* rendered without its context: no line of the context node and no         *)
(* separator for the node is ever produced, wherever the node sits in the   *)
(* tree; rendered at top level, the output is the node's block alone.       *)
C2_SuppressedContext ==
    CallChain =>
      \A b \in DOMAIN nodes :
        (nodes[b].__cause__ = None /\ nodes[b].__context__ # None
            /\ nodes[b].__suppress_context__) =>
          /\ \A k \in 1..Len(out) :
                /\ out[k].node # nodes[b].__context__
                /\ ~(out[k].kind = "msg" /\ out[k].node = b)
          /\ b = root =>
                \A k \in 1..Len(out) : out[k].frame = 1 => out[k].node = b

\* a nested node with a suppressed context has been rendered with chain=true
C2_Witness ==
    /\ Completed /\ CallChain
    /\ \E b \in DOMAIN nodes \ {root} :
         /\ nodes[b].__cause__ = None /\ nodes[b].__context__ # None
         /\ nodes[b].__suppress_context__
         /\ \E k \in 1..Len(out) : out[k].node = b /\ out[k].kind = "exc_only"

(* C3: a node with both __cause__ and __context__ is followed through       *)
(* __cause__ only, whatever __suppress_context__ says: its context node is  *)
(* never rendered and its separator is the cause text.  A context node is   *)
(* rendered only for an owner without __cause__ and with                    *)
(* __suppress_context__ false.                                              *)
C3_CausePreferred ==
    \A b \in DOMAIN nodes :
      /\ (nodes[b].__cause__ # None /\ nodes[b].__context__ # None) =>
            \A k \in 1..Len(out) :
              /\ out[k].node # nodes[b].__context__
              /\ (out[k].kind = "msg" /\ out[k].node = b) =>
                    out[k].body \in { _cause_message[m] : m \in 1..3 }
      /\ nodes[b].__context__ # None =>
            ((\E k \in 1..Len(out) : out[k].node = nodes[b].__context__) =>
                (nodes[b].__cause__ = None /\ ~nodes[b].__suppress_context__))

\* a node with both links was rendered after its cause and the cause text
C3_Witness ==
    /\ Completed /\ CallChain
    /\ \E b \in DOMAIN nodes :
         /\ nodes[b].__cause__ # None /\ nodes[b].__context__ # None
         /\ \E k \in 2..(Len(out) - 1) :
              /\ out[k].kind = "msg" /\ out[k].node = b
              /\ out[k + 1].body = _cause_message[2]
              /\ out[k - 1].node = nodes[b].__cause__

\* the lines of kind `kind` produced for object e, in order
LinesOf(L, kind, e) ==
    LET Test(x) == x.kind = kind /\ x.node = e IN SelectSeq(L, Test)

\* some line was produced for object e
Reached(L, e) == \E k \in 1..Len(L) : L[k].node = e

\* e is a group that was rendered with its own text, not cut by the depth limit
RenderedGroup(L, e) ==
    nodes[e].has_exceptions /\ LinesOf(L, "exc_only", e) # << >>

NumberedSlot(j) ==
    (IF j = 1 THEN "+-" ELSE "  ")
        \o "+---------------- " \o ToString(j) \o " ----------------"

EllipsisSlot(j) ==
    (IF j = 1 THEN "+-" ELSE "  ") \o "+---------------- ... ----------------"

ClosingLine == "+------------------------------------"

(* C4: in a completed render, a group rendered within the depth limit with  *)
(* num <= max_group_width children has exactly the slots 1..num and no      *)
(* summary; with more it has the slots 1..max_group_width, then one slot    *)
(* "..." holding only "and {num - max_group_width} more exception{s}"       *)
(* ("s" iff more than one), and the children past the limit are never       *)
(* rendered.  With the default 15: 20 children give "and 5 more             *)
(* exceptions", 16 give "and 1 more exception".                             *)
C4_WidthTruncation ==
    (Completed /\ max_group_width >= 0) =>
      \A g \in DOMAIN nodes :
        RenderedGroup(out, g) =>
          LET num == Len(nodes[g].exceptions)
              W == max_group_width
              S == Bodies(LinesOf(out, "slot", g))
              sum == LinesOf(out, "width_trunc", g)
          IN IF num <= W
             THEN /\ S = [ j \in 1..num |-> NumberedSlot(j) ]
                  /\ sum = << >>
                  /\ \A j \in 1..num : Reached(out, nodes[g].exceptions[j])
             ELSE /\ S = [ j \in 1..W |-> NumberedSlot(j) ]
                           \o << EllipsisSlot(W + 1) >>
                  /\ Len(sum) = 1
                  /\ sum[1].body = "and " \o ToString(num - W) \o " more exception"
                                     \o (IF num - W > 1 THEN "s" ELSE "")
                  /\ (W = 15 /\ num = 20) => sum[1].body = "and 5 more exceptions"
                  /\ (W = 15 /\ num = 16) => sum[1].body = "and 1 more exception"
                  \* the summary is all the "..." slot holds
                  /\ \E k \in 2..(Len(out) - 1) :
                        /\ out[k] = sum[1]
                        /\ out[k - 1].kind = "slot" /\ out[k - 1].node = g
                        /\ out[k - 1].body = EllipsisSlot(W + 1)
                        /\ out[k + 1].kind = "close" /\ out[k + 1].node = g
                  /\ \A j \in 1..W : Reached(out, nodes[g].exceptions[j])
                  /\ \A j \in (W + 1)..num : ~Reached(out, nodes[g].exceptions[j])

\* 20 leaves under the default width: 15 slots and "and 5 more exceptions"
C4_Witness ==
    /\ Completed
    /\ max_group_width = 15
    /\ Len(nodes[root].exceptions) = 20
    /\ Len(LinesOf(out, "slot", root)) = 16
    /\ out[Len(out) - 1].body = "and 5 more exceptions"
    /\ ~Reached(out, nodes[root].exceptions[16])

\* the level of a group in a tower of groups nested through `exceptions`
\* below the root (0: e is not in such a tower)
RECURSIVE TowerLevel(_)
TowerLevel(e) ==
    IF ~nodes[e].has_exceptions THEN 0
    ELSE IF e = root THEN 1
    ELSE LET P == { p \in DOMAIN nodes :
                      \E j \in 1..Len(nodes[p].exceptions) :
                          nodes[p].exceptions[j] = e }
         IN IF P = {} THEN 0
            ELSE LET up == TowerLevel(CHOOSE p \in P : TRUE)
                 IN IF up = 0 THEN 0 ELSE up + 1

\* the lines of the block of e (a separator printed before it is not part)
BlockLinesOf(L, e) ==
    LET Test(x) == x.node = e /\ x.kind # "msg" IN SelectSeq(L, Test)

(* C5: in a completed render of a tower of nested groups (level 1 the       *)
(* top-level group, level k+1 a child of the level-k group) with            *)
(* max_group_depth = D >= 1 (10 by default), a group reached at a level up  *)
(* to D is rendered with its own text and its slots, and a group reached at *)
(* level D+1 yields the single line "... (max_group_depth is D)" and        *)
(* nothing else: no slot, no child, no closing line, whatever the number of *)
(* its children.                                                            *)
C5_DepthTruncation ==
    (Completed /\ max_group_depth >= 1) =>
      \A g \in DOMAIN nodes :
        (TowerLevel(g) > 0 /\ Reached(out, g)) =>
          LET D == max_group_depth
              level == TowerLevel(g)
              num == Len(nodes[g].exceptions)
              mine == BlockLinesOf(out, g)
          IN /\ level <= D + 1
             /\ level <= D =>
                  /\ RenderedGroup(out, g)
                  /\ LinesOf(out, "depth_trunc", g) = << >>
                  /\ max_group_width >= 0 =>
                       Len(LinesOf(out, "slot", g))
                          = (IF num <= max_group_width THEN num
                             ELSE max_group_width + 1)
             /\ level = D + 1 =>
                  /\ Len(mine) = 1
                  /\ mine[1].kind = "depth_trunc"
                  /\ mine[1].body = "... (max_group_depth is " \o ToString(D) \o ")"
                  /\ D = 10 => mine[1].body = "... (max_group_depth is 10)"
                  /\ \A j \in 1..num : ~Reached(out, nodes[g].exceptions[j])

\* an 11-level tower under the default depth: level 10 is rendered, level 11
\* with its two children is replaced by the truncation line
C5_Witness ==
    /\ Completed
    /\ max_group_depth = 10
    /\ \E g \in DOMAIN nodes :
         /\ TowerLevel(g) = 11
         /\ Len(nodes[g].exceptions) = 2
         /\ Bodies(BlockLinesOf(out, g)) = << "... (max_group_depth is 10)" >>
    /\ \E h \in DOMAIN nodes :
         /\ TowerLevel(h) = 10
         /\ Bodies(LinesOf(out, "slot", h)) = << NumberedSlot(1) >>

\* a top-level group of leaves without links, none cut by the width limit
GroupOfPlainLeaves ==
    /\ nodes[root].has_exceptions
    /\ ~HasLink(root)
    /\ Len(nodes[root].exceptions) >= 1
    /\ Len(nodes[root].exceptions) <= max_group_width
    /\ \A j \in 1..Len(nodes[root].exceptions) :
          /\ ~nodes[nodes[root].exceptions[j]].has_exceptions
          /\ ~HasLink(nodes[root].exceptions[j])

(* C6: the completed render of a top-level group whose children are all     *)
(* leaves without links (at least one, at most max_group_width) has exactly *)
(* one closing frame line; it is the last line of the output and comes      *)
(* right after the block of the last child.                                 *)
C6_ClosingFrame ==
    (Completed /\ GroupOfPlainLeaves) =>
      LET last == nodes[root].exceptions[Len(nodes[root].exceptions)]
          closes == { k \in 1..Len(out) : out[k].body = ClosingLine }
      IN /\ Cardinality(closes) = 1
         /\ closes = { Len(out) }
         /\ out[Len(out)].kind = "close"
         /\ out[Len(out) - 1].node = last
         /\ out[Len(out) - 1].kind = "exc_only"

\* two leaves: the closing line follows the second, not the first
C6_Witness ==
    /\ Completed /\ GroupOfPlainLeaves
    /\ Len(nodes[root].exceptions) = 2
    /\ out[Len(out)].body = ClosingLine
    /\ \E k \in 1..(Len(out) - 3) :
          /\ out[k].node = nodes[root].exceptions[1] /\ out[k].kind = "exc_only"
          /\ out[k + 1].kind = "slot"

(* C7: every line passed through emit while exception_group_depth = d > 0, *)
(* blank lines included, gets the prefix of 2*d spaces and "| "; the        *)
(* margin is "+ " instead exactly for the "Exception Group Traceback"       *)
(* header of a group entered at depth 0.  At depth 0 there is no prefix.    *)
C7_Indentation ==
    [][ Len(out') > Len(out) =>
          \A k \in (Len(out) + 1)..Len(out') :
            LET d == exception_group_depth' IN
              out'[k].kind \notin {"slot", "close"} =>
                out'[k].pre =
                  (IF d = 0 THEN ""
                   ELSE Spaces(2 * d)
                          \o (IF out'[k].kind = "eg_header"
                                 /\ exception_group_depth = 0
                              THEN "+ " ELSE "| ")) ]_vars

\* a blank separator line inside a slot of a top-level group with a header
C7_Witness ==
    /\ Completed
    /\ out[1].kind = "eg_header" /\ out[1].pre = "  + "
    /\ out[2].pre = "  | "
    /\ \E k \in 1..Len(out) :
          out[k].body = "" /\ out[k].kind = "msg" /\ out[k].pre = "    | "

(* C8: two complete renders of the same tree with the same chain flag,      *)
(* each with its own _ExceptionPrintContext, yield the same lines; every    *)
(* complete render leaves the tree as it was and its context at depth 0     *)
(* with need_close false.                                                   *)
C8_Idempotent ==
    /\ \A r \in 1..Len(results) :
          /\ results[r].depth = 0
          /\ results[r].need_close = FALSE
          /\ results[r].tree = nodes
    /\ \A r1, r2 \in 1..Len(results) :
          results[r1].chain = results[r2].chain =>
              results[r1].lines = results[r2].lines

\* a group with a nested group and a chained child has been rendered twice
C8_Witness ==
    /\ Len(results) = 2
    /\ results[1].lines = results[2].lines
    /\ Len(results[2].lines) > 3
    /\ nodes[root].has_exceptions
    /\ \E k \in 1..Len(results[2].lines) : results[2].lines[k].kind = "close"

(* C9: render(node, chain=true) of a leaf without links yields exactly the  *)
(* "Traceback (most recent call last):" line and the stack text when there  *)
(* is a stack, then the exception-only text: no slot header, closing line,  *)
(* separator or prefix, and exception_group_depth is 0 throughout.          *)
C9_PlainLeaf ==
    (CallChain /\ ~nodes[root].has_exceptions /\ ~HasLink(root)) =>
      /\ exception_group_depth = 0
      /\ \A k \in 1..Len(out) :
            /\ out[k].pre = ""
            /\ out[k].kind \in {"tb_header", "stack", "exc_only"}
      /\ Completed =>
            /\ Bodies(out) = LeafBlock(root)
            /\ nodes[root].stack = 0 => Bodies(out) = << "Error1: message 1" >>
            /\ out[Len(out)].kind = "exc_only"

\* a leaf with one frame
C9_Witness ==
    /\ Completed /\ CallChain
    /\ ~nodes[root].has_exceptions /\ ~HasLink(root)
    /\ Bodies(out) = << "Traceback (most recent call last):",
                        "  File exc1.py, line 1, in f", "    raise",
                        "Error1: message 1" >>

(* C10: with chain=false the walk of every activation, nested ones          *)
(* included, is exactly the node itself, and the output holds no separator  *)
(* and no line of any cause or context node, even where links are set.      *)
C10_NoChain ==
    ((stack # << >> \/ results # << >>) /\ ~CallChain) =>
      /\ \A f \in 1..Len(stack) :
            /\ ~stack[f].chain
            /\ stack[f].pc # "walk" =>
                  stack[f].output = << [msg |-> "none", exc |-> stack[f].self] >>
      /\ \A k \in 1..Len(out) :
            /\ out[k].kind # "msg"
            /\ \A b \in DOMAIN nodes :
                  /\ out[k].node # nodes[b].__cause__
                  /\ out[k].node # nodes[b].__context__

\* a nested child with a link was rendered with chain=false
C10_Witness ==
    /\ Completed /\ ~CallChain
    /\ \E b \in DOMAIN nodes \ {root} : HasLink(b) /\ Reached(out, b)

\* e was rendered by the outermost activation, at depth 0
RenderedAtTopLevel(L, e) ==
    \E k \in 1..Len(L) : L[k].node = e /\ L[k].frame = 1 /\ L[k].kind # "msg"

\* the whole block of group g is the depth-truncation line
OnlyDepthLine(L, g) ==
    /\ Bodies(BlockLinesOf(L, g))
          = << "... (max_group_depth is " \o ToString(max_group_depth) \o ")" >>
    /\ BlockLinesOf(L, g)[1].kind = "depth_trunc"
    /\ \A j \in 1..Len(nodes[g].exceptions) : ~Reached(L, nodes[g].exceptions[j])

(* C11 as claimed: with max_group_depth = 0 every group that is reached,    *)
(* the top-level group included, renders only the depth-truncation line.    *)
C11_AsClaimed ==
    (Completed /\ max_group_depth = 0) =>
      \A g \in DOMAIN nodes :
        (nodes[g].has_exceptions /\ Reached(out, g)) => OnlyDepthLine(out, g)

(* C11 amended: with max_group_depth = 0 every group nested inside a slot   *)
(* renders only the line "... (max_group_depth is 0)", with no text, slot   *)
(* or closing line of its own, while a group rendered at top level (depth   *)
(* 0) is rendered normally: its own text, its slots and, when it has a      *)
(* slot, a closing frame line.                                              *)
C11_ZeroDepth ==
    (Completed /\ max_group_depth = 0) =>
      \A g \in DOMAIN nodes :
        (nodes[g].has_exceptions /\ Reached(out, g)) =>
          IF RenderedAtTopLevel(out, g)
          THEN /\ RenderedGroup(out, g)
               /\ LinesOf(out, "depth_trunc", g) = << >>
               /\ (max_group_width >= 0 /\ Len(nodes[g].exceptions) >= 1) =>
                     /\ LinesOf(out, "slot", g) # << >>
                     /\ Len(LinesOf(out, "close", g)) = 1
          ELSE /\ OnlyDepthLine(out, g)
               /\ BlockLinesOf(out, g)[1].body = "... (max_group_depth is 0)"

\* a top-level group rendered with a slot whose child group is truncated
C11_Witness ==
    /\ Completed /\ max_group_depth = 0
    /\ RenderedGroup(out, root)
    /\ Len(nodes[root].exceptions) = 1
    /\ nodes[nodes[root].exceptions[1]].has_exceptions
    /\ Bodies(LinesOf(out, "slot", root)) = << NumberedSlot(1) >>
    /\ OnlyDepthLine(out, nodes[root].exceptions[1])
    /\ out[Len(out)].kind = "close"

\* position of the first line of kind `kind` produced for e (0: none)
FirstOf(L, kind, e) ==
    LET P == { k \in 1..Len(L) : L[k].kind = kind /\ L[k].node = e }
    IN IF P = {} THEN 0 ELSE Min(P)

\* after its own text, group g holds one "..." slot with the summary of all
\* its children and the closing line, and nothing else
OnlySummarySlot(L, g) ==
    LET num == Len(nodes[g].exceptions)
        k == FirstOf(L, "exc_only", g)
    IN /\ k + 3 <= Len(L)
       /\ L[k + 1].kind = "slot" /\ L[k + 1].node = g
       /\ L[k + 1].body = "+-+---------------- ... ----------------"
       /\ L[k + 2].kind = "width_trunc" /\ L[k + 2].node = g
       /\ L[k + 2].body = "and " \o ToString(num) \o " more exception"
                             \o (IF num > 1 THEN "s" ELSE "")
       /\ L[k + 3].kind = "close" /\ L[k + 3].node = g
       /\ L[k + 3].body = ClosingLine
       /\ Len(LinesOf(L, "slot", g)) = 1
       /\ Len(LinesOf(L, "close", g)) = 1
       /\ \A j \in 1..num : ~Reached(L, nodes[g].exceptions[j])

(* C12 as claimed: with max_group_width = 0 a rendered group with children  *)
(* shows none of them, only one "..." slot with "and {num} more             *)
(* exception{s}" and the closing line; with a negative max_group_width the  *)
(* render completes without error and a truncation summary still reports    *)
(* the omitted children.                                                    *)
C12_AsClaimed ==
    /\ max_group_width <= 0 => error = "none"
    /\ Completed =>
         \A g \in DOMAIN nodes :
           (RenderedGroup(out, g) /\ Len(nodes[g].exceptions) >= 1) =>
             /\ max_group_width = 0 => OnlySummarySlot(out, g)
             /\ max_group_width < 0 => LinesOf(out, "width_trunc", g) # << >>

(* C12 amended: the zero-width part as claimed; with a negative             *)
(* max_group_width the render completes without error, but the group shows *)
(* its own text only: no slot, no truncation summary and no closing line,   *)
(* and none of its children.                                                *)
C12_ZeroWidth ==
    /\ max_group_width <= 0 => error = "none"
    /\ Completed =>
         \A g \in DOMAIN nodes :
           (RenderedGroup(out, g) /\ Len(nodes[g].exceptions) >= 1) =>
             /\ max_group_width = 0 => OnlySummarySlot(out, g)
             /\ max_group_width < 0 =>
                  /\ LinesOf(out, "width_trunc", g) = << >>
                  /\ LinesOf(out, "slot", g) = << >>
                  /\ LinesOf(out, "close", g) = << >>
                  /\ \A j \in 1..Len(nodes[g].exceptions) :
                        ~Reached(out, nodes[g].exceptions[j])

\* zero width, two children: the summary slot alone
C12_Witness ==
    /\ Completed /\ max_group_width = 0
    /\ Len(nodes[root].exceptions) = 2
    /\ nodes[root].stack = 0 /\ ~HasLink(root)
    /\ Bodies(out) = << "ExceptionGroup: group 1 (2 sub-exceptions)",
                        "+-+---------------- ... ----------------",
                        "and 2 more exceptions",
                        ClosingLine >>

\* negative width: a completed render of a group with children
C12_NegativeReached ==
    /\ Completed /\ max_group_width < 0
    /\ RenderedGroup(out, root) /\ Len(nodes[root].exceptions) >= 1

(* C13: a run of the module body replaces sys.excepthook by the            *)
(* group-aware hook if and only if sys.excepthook is still the              *)
(* interpreter's default at that moment; a hook the user has installed is   *)
(* left as it is, and a further run of the module body changes nothing.     *)
C13_Install ==
    [][ /\ (~imported /\ imported') =>
              /\ excepthook = "sys.__excepthook__"
                    => excepthook' = "exceptiongroup_excepthook"
              /\ excepthook # "sys.__excepthook__" => excepthook' = excepthook
        /\ excepthook' # excepthook =>
              (~imported /\ imported' /\ excepthook = "sys.__excepthook__")
        /\ imported => (imported' /\ excepthook' = excepthook) ]_vars

\* the module was imported in a process with a user hook, which is still there
C13_Witness ==
    /\ imported /\ excepthook = "user_hook"
    /\ Completed

\* the index of the last line of the block that starts at line h: the lines
\* that follow it from deeper activations, or from the same activation for
\* the same object
BlockEnd(L, h) ==
    Max({ k \in h..Len(L) :
            \A j \in (h + 1)..k :
                \/ L[j].frame > L[h].frame
                \/ /\ L[j].frame = L[h].frame
                   /\ L[j].node = L[h].node
                   /\ L[j].kind # "msg" })

\* the index of the line that carries the own text of a rendered group
GroupTextIdx(L, g) ==
    CHOOSE k \in 1..Len(L) : L[k].node = g /\ L[k].kind = "exc_only"

(* C14: in a completed render, for every group rendered within the depth    *)
(* limit that has at least one slot, the last line of the group's block     *)
(* (everything produced for the group and for its descendants) is a closing *)
(* frame line, whatever the shape of its last child.                        *)
C14_ClosingLast ==
    Completed =>
      \A g \in DOMAIN nodes :
        (RenderedGroup(out, g) /\ LinesOf(out, "slot", g) # << >>) =>
           LET last == BlockEnd(out, GroupTextIdx(out, g))
           IN /\ out[last].kind = "close"
              /\ out[last].body = ClosingLine

\* the block of a top-level group ends with the text of its only child, a
\* leaf rendered after the group it was raised from
C14_Unclosed ==
    /\ Completed /\ CallChain
    /\ nodes = ChainedChildTree("cause")
    /\ Bodies(out) = << "ExceptionGroup: group 1 (1 sub-exceptions)",
                        NumberedSlot(1),
                        "ExceptionGroup: group 3 (1 sub-exceptions)",
                        NumberedSlot(1),
                        "Error4: message 4",
                        ClosingLine >>
                     \o _cause_message
                     \o << "Error2: message 2" >>

(* C15: a closing frame line is only produced by a step that finds          *)
(* need_close set and clears it; a group that reaches the end of a slot     *)
(* with need_close already cleared (a deeper call has closed the frame)     *)
(* produces nothing; and the output never has two consecutive closing       *)
(* frame lines.                                                             *)
C15_NoDoubleClose ==
    [][ /\ (Len(out') > Len(out) /\ out'[Len(out')].kind = "close") =>
              (need_close /\ ~need_close' /\ Len(out') = Len(out) + 1)
        /\ (Running /\ Top.pc = "slot_end" /\ ~need_close) => out' = out
        /\ \A k \in 1..(Len(out') - 1) :
              ~(out'[k].body = ClosingLine /\ out'[k + 1].body = ClosingLine)
      ]_vars

\* the last child of the top-level group is a group: the only closing line
\* is the one of the nested group, and it ends the output
C15_Witness ==
    /\ Completed
    /\ nodes[root].has_exceptions
    /\ Len(nodes[root].exceptions) >= 1
    /\ LET g == nodes[root].exceptions[Len(nodes[root].exceptions)]
       IN /\ nodes[g].has_exceptions
          /\ Len(LinesOf(out, "close", g)) = 1
          /\ LinesOf(out, "close", root) = << >>
          /\ LinesOf(out, "slot", root) # << >>
          /\ out[Len(out)].kind = "close"
          /\ out[Len(out)].node = g

\* the running call has consumed its for loop and is about to return
FullyConsumed == Running /\ Top.pc = "loop" /\ Top.it = << >>

(* C16: every call of format() that has been consumed to its end, nested    *)
(* ones included, leaves exception_group_depth at the value it found on     *)
(* entry; the assertion at the end of a top-level group never fails; and    *)
(* exception_group_depth is 0 when the top-level call is complete.          *)
C16_DepthBalance ==
    /\ error # "AssertionError"
    /\ FullyConsumed => exception_group_depth = Top.entered
    /\ Completed => exception_group_depth = 0
    /\ \A r \in 1..Len(results) : results[r].depth = 0

\* a nested call returns balanced at depth 3: the leaf of the group that a
\* child of the top-level group was raised from
C16_Witness ==
    /\ FullyConsumed
    /\ nodes = ChainedChildTree("context")
    /\ Len(stack) = 3
    /\ Top.self = 4
    /\ Top.entered = 3
    /\ exception_group_depth = 3
    /\ out[Len(out)].node = 4

\* the top-level leaf of a chain is rendered after the group it was raised
\* from, an empty group among the rendered ones, and the call is complete
C16_ChainedGroupCompleted ==
    /\ Completed /\ CallChain
    /\ ~nodes[root].has_exceptions
    /\ nodes[root].__cause__ # None
    /\ nodes[nodes[root].__cause__].has_exceptions
    /\ \E g \in DOMAIN nodes :
          RenderedGroup(out, g) /\ nodes[g].exceptions = << >>
    /\ exception_group_depth = 0

\* the objects in the links of e in the captured tree, followed as the walk
\* follows them, form a cycle through e
RECURSIVE OnCycle(_, _, _)
OnCycle(e, x, k) ==
    IF k = 0 \/ ChainedIn(nodes, x) = None THEN FALSE
    ELSE ChainedIn(nodes, x) = e \/ OnCycle(e, ChainedIn(nodes, x), k - 1)

(* C18: given objects whose cause/context links form a cycle, a call with   *)
(* chain=true does not go round the cycle: the set `seen` of the print      *)
(* context stops the walk, so no call collects the same object twice and    *)
(* the walk does not run until memory is exhausted.                         *)
C18_SeenStopsWalk ==
    /\ error # "MemoryError"
    /\ \A f \in 1..Len(stack) :
          \A j, k \in 1..Len(stack[f].output) :
              stack[f].output[j].exc = stack[f].output[k].exc => j = k

\* the walk of a call with chain=true has gone round a cycle until the list
\* could not grow, no line of the object was produced, and `seen` is empty
C18_WalkExhausted ==
    /\ error = "MemoryError"
    /\ stack # << >> /\ Top.chain /\ Top.pc = "walk"
    /\ OnCycle(Top.self, Top.self, Cardinality(DOMAIN nodes))
    /\ Len(Top.output) = MaxWalk
    /\ ~(\E k \in 1..Len(out) : out[k].node = Top.self)
    /\ seen = {}

\* more lines than any render of the captured tree produces: per object a
\* separator, a header, its frames, its text, its slot header, a closing
\* line, and a summary slot
RECURSIVE LineBoundUpTo(_)
LineBoundUpTo(e) ==
    IF e = 0 THEN 0
    ELSE 9 + 2 * nodes[e].stack + LineBoundUpTo(e - 1)

LineBound == LineBoundUpTo(Cardinality(DOMAIN nodes))

(* C17: for every finite acyclic tree and either chain flag, a call of      *)
(* format() that is consumed raises no error, never produces more lines     *)
(* than a bound fixed by the tree, and comes to its end.                    *)
C17_Terminates ==
    /\ [](error = "none")
    /\ [](Len(out) <= LineBound)
    /\ (stack # << >>) ~> Completed

\* the widest group and a second call on it have both come to an end
C17_Witness ==
    /\ Completed
    /\ Len(results) = MaxRuns
    /\ Len(nodes[root].exceptions) = MaxWide
    /\ Len(out) > MaxWide

\* the places of the slot headers of group g, in output order
SlotIdx(L, g) ==
    SortedSeq({ k \in 1..Len(L) : L[k].kind = "slot" /\ L[k].node = g })

\* the places of the lines produced for object c itself
OwnIdx(L, c) == { k \in 1..Len(L) : L[k].node = c /\ L[k].kind # "msg" }

(* C19: in a completed render, the slots of a rendered group that hold a    *)
(* child come in child order: the i-th slot header is indent() of the       *)
(* group (2*depth spaces, no margin character) followed by "+-" for the     *)
(* first slot and two spaces for the others and by the title i; the next    *)
(* line is produced by the call on children[i], one level deeper; every     *)
(* line up to the next slot header of the group comes from that call or     *)
(* from calls below it, and all lines of children[i] are among them.        *)
C19_SlotOrder ==
    Completed =>
      \A g \in DOMAIN nodes :
        RenderedGroup(out, g) =>
          LET at == SlotIdx(out, g)
              text == out[GroupTextIdx(out, g)]
              num == Len(nodes[g].exceptions)
          IN \A i \in 1..Len(at) :
               (i <= num /\ i <= max_group_width) =>
                 LET h == at[i]
                     c == nodes[g].exceptions[i]
                     stop == IF i < Len(at) THEN at[i + 1]
                             ELSE BlockEnd(out, GroupTextIdx(out, g)) + 1
                 IN /\ out[h].body = NumberedSlot(i)
                    /\ out[h].pre = Spaces(2 * text.depth)
                    /\ out[h].frame = text.frame
                    /\ h + 1 < stop
                    /\ out[h + 1].frame = text.frame + 1
                    /\ out[h + 1].depth = text.depth + 1
                    /\ \A j \in (h + 1)..(stop - 1) :
                          \/ out[j].frame > text.frame
                          \/ i = Len(at) /\ j = stop - 1 /\ out[j].kind = "close"
                    /\ OwnIdx(out, c) # {}
                    /\ \A j \in OwnIdx(out, c) : h < j /\ j < stop

\* two children, the first with a traceback: the header of slot 2 follows
\* the four lines of the first child and is followed by the second child
C19_Witness ==
    /\ Completed /\ CallChain
    /\ nodes[root].has_exceptions
    /\ Len(nodes[root].exceptions) = 2
    /\ Bodies(LinesOf(out, "slot", root)) = << NumberedSlot(1), NumberedSlot(2) >>
    /\ LET at == SlotIdx(out, root)
           c1 == nodes[root].exceptions[1]
           c2 == nodes[root].exceptions[2]
       IN /\ nodes[c1].stack = 1
          /\ \A j \in OwnIdx(out, c1) : at[1] < j /\ j < at[2]
          /\ Cardinality(OwnIdx(out, c1)) = 4
          /\ out[at[2] + 1].node = c2
          /\ out[at[2]].pre = "  "

\* the call is inside the slot loop of a group
InSlots(f) == f.pc \in {"slots", "child", "summary", "slot_end"}

(* C20: in every state of a render started from a fresh context, for a      *)
(* limit max_group_depth >= 1 (10 by default), exception_group_depth is at  *)
(* least 0 and at most max_group_depth + 1 (11 by default), however deep    *)
(* the tree; and no slot is opened by a group that was entered at a depth   *)
(* greater than max_group_depth.                                            *)
C20_BoundedDepth ==
    /\ exception_group_depth >= 0
    /\ max_group_depth >= 1 => exception_group_depth <= max_group_depth + 1
    /\ max_group_depth = 10 => exception_group_depth <= 11
    /\ \A f \in 1..Len(stack) :
          InSlots(stack[f]) => stack[f].entered <= max_group_depth
    /\ max_group_depth >= 1 =>
          \A k \in 1..Len(out) :
              out[k].kind = "slot" => out[k].depth <= max_group_depth

\* a tower deeper than the limit: at depth 11 the group of level 11 has just
\* been cut
C20_Witness ==
    /\ Running
    /\ max_group_depth = 10
    /\ exception_group_depth = 11
    /\ out # << >>
    /\ out[Len(out)].kind = "depth_trunc"
    /\ Len(nodes[out[Len(out)].node].exceptions) > 0

=============================================================================
